---- MODULE Spec2Model ----
(***************************************************************************)
(* A model of the two text-processing classes of ovus:                     *)
(*   CommentScanner     (src/lib/io/file-reader.js, lines 291-491)         *)
(*   CommentTransformer (src/unnamed/part_001)                             *)
(* and of FileReader.loadFiles (src/lib/io/file-reader.js, lines 6-277).   *)
(* A text is a sequence of one-character strings.  JavaScript's null is    *)
(* the value Null for a text and NullPos for a position.  scan() is        *)
(* modelled one loop iteration per step, transform() one phase per step.   *)
(***************************************************************************)
EXTENDS Integers, Sequences, FiniteSets, TLC

\* CommentScanner: #text, #pos, #segments; the locals of scan(); where the
\* caller is (spc), how its last call ended (sOutcome), the number of
\* iterations the loop of the running scan() has made, modulo 2 (sIter), and
\* the value the last call returned when it was scan() (sResult).
VARIABLES sText, sPos, sSegments, currentSegment, inString, stringEscape,
          spc, sOutcome, sIter, sResult

\* CommentTransformer: #text, #pos, #templateData; where transform() is (tpc),
\* how the last call ended (tOutcome), the error it threw (tError), and the
\* directive the loaded text was written from (tShape, not read by the code).
\* tUse tells how the instance has been used (not read by the code): "fresh"
\* until the first transform() call, "called" from then on, and "reused" once
\* load() has stored a text after a transform() call.
VARIABLES tText, tPos, templateData, tpc, tOutcome, tError, tShape, tUse

\* FileReader: what the glob lists match in the file system (fMatches),
\* #htmlExtensions and #jsExtensions; of the running loadFiles(): the array
\* fileNames, the index the for-of iterator reads next (fNext), the array
\* files, where loadFiles() is (fpc) and where the #appendWhitelistFiles() it
\* started is (wpc).
VARIABLES fMatches, fHtmlExtensions, fJsExtensions, fileNames, fNext, files, fpc, wpc

sVars == <<sText, sPos, sSegments, currentSegment, inString, stringEscape,
           spc, sOutcome, sIter, sResult>>

tVars == <<tText, tPos, templateData, tpc, tOutcome, tError, tShape, tUse>>

fVars == <<fMatches, fHtmlExtensions, fJsExtensions, fileNames, fNext, files, fpc, wpc>>

vars == <<sText, sPos, sSegments, currentSegment, inString, stringEscape,
          spc, sOutcome, sIter, sResult, tText, tPos, templateData, tpc, tOutcome, tError, tShape, tUse,
          fMatches, fHtmlExtensions, fJsExtensions, fileNames, fNext, files, fpc, wpc>>

\* ------------------------------------------------------------------ bounds

\* The longest scanner input, counted in tokens of STokens.
MaxTokens == 5

\* scan() on some inputs never returns and its segment array grows for ever;
\* the model keeps the first MaxSegments entries of the array.
MaxSegments == 12

\* ------------------------------------------------------------- JS values

\* null where a string is expected: a one-element tuple that is no text.
Null == <<"null">>

\* null where a number is expected.
NullPos == -1

\* The numeric value JavaScript gives a position in <, + and as an index.
ToNumber(p) == IF p = NullPos THEN 0 ELSE p

Min(a, b) == IF a < b THEN a ELSE b

\* String.prototype.charAt: "" beyond the end.
CharAt(t, p) == IF p >= 0 /\ p < Len(t) THEN t[p + 1] ELSE ""

\* String.prototype.slice(a, b) for 0 <= a, 0-based, b exclusive.
Slice(t, a, b) == SubSeq(t, a + 1, Min(b, Len(t)))

\* String.prototype.startsWith.
StartsWith(t, pat) == Len(t) >= Len(pat) /\ SubSeq(t, 1, Len(pat)) = pat

CommentOpen == <<"<", "!", "-", "-">>

CommentClose == <<"-", "-", ">">>

\* The values load() may be given that are no primitive string: what typeof
\* says of each and whether it is an instance of String.
LoadValues ==
  {[typeof |-> "number", isString |-> FALSE], [typeof |-> "boolean", isString |-> FALSE],
   [typeof |-> "undefined", isString |-> FALSE], [typeof |-> "object", isString |-> FALSE],
   [typeof |-> "null", isString |-> FALSE], [typeof |-> "object", isString |-> TRUE]}

\* typeof of a value: typeof null is "object".
TypeOf(v) == IF v.typeof = "null" THEN "object" ELSE v.typeof

\* The test of load() with every object taken for a string.
IsText_AnyObject(v) == TypeOf(v) \in {"string", "object"}

\* typeof text === "string" || text instanceof String
IsText(v) == TypeOf(v) = "string" \/ v.isString

\* The characters the regular expression's "." does not match.
LineTerminators == {"\n"}

\* ---------------------------------------------------------- scanner inputs

STokens == {CommentOpen, CommentClose, <<"<">>, <<"\"">>, <<"'">>, <<"\\">>, <<"\n">>}

RECURSIVE Flatten(_)
Flatten(ts) == IF ts = <<>> THEN <<>> ELSE Head(ts) \o Flatten(Tail(ts))

ScanTexts == {Flatten(ts) : ts \in UNION {[1..k -> STokens] : k \in 0..MaxTokens}}

\* The texts given to load() on an instance that is in use.  load() leaves
\* nothing of the earlier state, so the state after load(t) is the state of
\* new CommentScanner(t), which SInit covers for every t of ScanTexts.
ReloadTexts ==
  {<<>>, <<"<">>, CommentOpen \o CommentClose, <<"\"">> \o CommentOpen, <<"\\", "'">>,
   CommentOpen \o <<"\n">> \o CommentClose}

\* ------------------------------------------------------ CommentScanner

\* #peek(n)
Peek(t, p, n) == Slice(t, ToNumber(p), ToNumber(p) + n)

\* #rest()
Rest(t, p) == Slice(t, ToNumber(p), Len(t))

\* #commentNext()
CommentNext(t, p) == Peek(t, p, 4) = CommentOpen

\* #notEOS()
NotEOS(t, p) == ToNumber(p) < Len(t)

\* The 0-based offsets in r at which /^<!--.*?-->/ can end its ".*?": a "-->"
\* at or after offset 4 with no line terminator between the "<!--" and it.
CloseOffsets(r) ==
  {j \in 4..(Len(r) - 3) :
     /\ SubSeq(r, j + 1, j + 3) = CommentClose
     /\ \A k \in 5..j : r[k] \notin LineTerminators}

SetMin(S) == CHOOSE x \in S : \A y \in S : x <= y

\* #scanComment() with a new position one character too far.
ScanComment_SkipsOne(t, p) ==
  LET r == Rest(t, p)
  IN  IF StartsWith(r, CommentOpen) /\ CloseOffsets(r) # {}
      THEN LET len == SetMin(CloseOffsets(r)) + 3
           IN  [text |-> SubSeq(r, 1, len), newPos |-> ToNumber(p) + len + 1]
      ELSE [text |-> Null, newPos |-> NullPos]

\* #scanComment(): the shortest match of /^<!--.*?-->/ on the rest of the text.
ScanComment(t, p) ==
  LET r == Rest(t, p)
  IN  IF StartsWith(r, CommentOpen) /\ CloseOffsets(r) # {}
      THEN LET len == SetMin(CloseOffsets(r)) + 3
           IN  [text |-> SubSeq(r, 1, len), newPos |-> ToNumber(p) + len]
      ELSE [text |-> Null, newPos |-> NullPos]

\* Array.prototype.push on #segments, cut off at MaxSegments entries.
Push(segs, s) == IF Len(segs) < MaxSegments THEN Append(segs, s) ELSE segs

\* load(text) with a string.
SLoad(t) ==
  /\ spc = "idle"
  /\ sText' = t
  /\ sPos' = 0
  /\ sSegments' = <<>>
  /\ sOutcome' = "none"
  /\ UNCHANGED <<currentSegment, inString, stringEscape, spc>>
  /\ UNCHANGED sIter
  /\ sResult' = <<>>
  /\ UNCHANGED tVars
  /\ UNCHANGED fVars

\* load(text) with a value that is not a string: throws before any assignment.
SLoadInvalid(v) ==
  /\ spc = "idle"
  /\ ~IsText(v)
  /\ sOutcome' = "TypeError"
  /\ UNCHANGED <<sText, sPos, sSegments, currentSegment, inString, stringEscape, spc>>
  /\ UNCHANGED sIter
  /\ sResult' = <<>>
  /\ UNCHANGED tVars
  /\ UNCHANGED fVars

\* reset() of the scanner leaving the segments of the last scan().
SReset_KeepsSegments ==
  /\ spc = "idle"
  /\ sPos' = 0
  /\ sOutcome' = "none"
  /\ UNCHANGED <<sText, sSegments, currentSegment, inString, stringEscape, spc>>
  /\ UNCHANGED sIter
  /\ sResult' = <<>>
  /\ UNCHANGED tVars
  /\ UNCHANGED fVars

\* reset()
SReset ==
  /\ spc = "idle"
  /\ sPos' = 0
  /\ sSegments' = <<>>
  /\ sOutcome' = "none"
  /\ UNCHANGED <<sText, currentSegment, inString, stringEscape, spc>>
  /\ UNCHANGED sIter
  /\ sResult' = <<>>
  /\ UNCHANGED tVars
  /\ UNCHANGED fVars

\* scan() taking no text for the empty text: it returns no segments.
ScanBegin_NullIsEmpty ==
  /\ spc = "idle"
  /\ IF sText = Null
     THEN /\ sOutcome' = "returned"
          /\ UNCHANGED <<spc>>
     ELSE /\ spc' = "scanning"
          /\ sOutcome' = "none"
  /\ currentSegment' = <<>>
  /\ inString' = FALSE
  /\ stringEscape' = FALSE
  /\ UNCHANGED <<sText, sPos, sSegments>>
  /\ sIter' = 0
  /\ sResult' = <<>>
  /\ UNCHANGED tVars
  /\ UNCHANGED fVars

\* scan() setting the cursor to the start of the text when it is entered.
ScanBegin_FromStart ==
  /\ spc = "idle"
  /\ IF sText = Null
     THEN /\ sOutcome' = "NullTypeError"
          /\ UNCHANGED <<spc>>
     ELSE /\ spc' = "scanning"
          /\ sOutcome' = "none"
  /\ currentSegment' = <<>>
  /\ inString' = FALSE
  /\ stringEscape' = FALSE
  /\ sPos' = 0
  /\ UNCHANGED <<sText, sSegments>>
  /\ sIter' = 0
  /\ sResult' = <<>>
  /\ UNCHANGED tVars
  /\ UNCHANGED fVars

\* scan() is entered: the locals are initialised; the first loop test reads
\* this.#text.length, which throws a TypeError when no text is loaded.
ScanBegin ==
  /\ spc = "idle"
  /\ IF sText = Null
     THEN /\ sOutcome' = "NullTypeError"
          /\ UNCHANGED <<spc>>
     ELSE /\ spc' = "scanning"
          /\ sOutcome' = "none"
  /\ currentSegment' = <<>>
  /\ inString' = FALSE
  /\ stringEscape' = FALSE
  /\ UNCHANGED <<sText, sPos, sSegments>>
  /\ sIter' = 0
  /\ sResult' = <<>>
  /\ UNCHANGED tVars
  /\ UNCHANGED fVars

\* The first branch of the loop is taken and a comment is coming up.
AtComment ==
  /\ CharAt(sText, ToNumber(sPos)) = "<"
  /\ ~inString
  /\ CommentNext(sText, sPos)

\* The comment branch with the quote characters of the comment read as quotes.
ScanCommentStep_ReadsQuotes ==
  /\ spc = "scanning"
  /\ NotEOS(sText, sPos)
  /\ AtComment
  /\ LET comment == ScanComment(sText, sPos)
     IN  /\ sSegments' = Push(Push(sSegments, [comment |-> FALSE, text |-> currentSegment]),
                              [comment |-> TRUE, text |-> comment.text])
         /\ sPos' = comment.newPos
  /\ currentSegment' = <<>>
  /\ inString' = (Cardinality({k \in 1..Len(ScanComment(sText, sPos).text) :
                               ScanComment(sText, sPos).text[k] \in {"\"", "'"}}) % 2 = 1)
  /\ UNCHANGED <<sText, stringEscape, spc, sOutcome>>
  /\ sIter' = 1 - sIter
  /\ UNCHANGED sResult
  /\ UNCHANGED tVars
  /\ UNCHANGED fVars

\* One iteration: "<" outside a string with "<!--" next.
ScanCommentStep ==
  /\ spc = "scanning"
  /\ NotEOS(sText, sPos)
  /\ AtComment
  /\ LET comment == ScanComment(sText, sPos)
     IN  /\ sSegments' = Push(Push(sSegments, [comment |-> FALSE, text |-> currentSegment]),
                              [comment |-> TRUE, text |-> comment.text])
         /\ sPos' = comment.newPos
  /\ currentSegment' = <<>>
  /\ UNCHANGED <<sText, inString, stringEscape, spc, sOutcome>>
  /\ sIter' = 1 - sIter
  /\ UNCHANGED sResult
  /\ UNCHANGED tVars
  /\ UNCHANGED fVars

\* One iteration: a backslash.
ScanEscapeStep ==
  /\ spc = "scanning"
  /\ NotEOS(sText, sPos)
  /\ ~(CharAt(sText, ToNumber(sPos)) = "<" /\ ~inString)
  /\ CharAt(sText, ToNumber(sPos)) = "\\"
  /\ currentSegment' = IF stringEscape THEN Append(currentSegment, "\\") ELSE currentSegment
  /\ stringEscape' = ~stringEscape
  /\ sPos' = ToNumber(sPos) + 1
  /\ UNCHANGED <<sText, sSegments, inString, spc, sOutcome>>
  /\ sIter' = 1 - sIter
  /\ UNCHANGED sResult
  /\ UNCHANGED tVars
  /\ UNCHANGED fVars

\* The flags after a quote character when the pending escape is not looked at.
AfterQuote_AlwaysToggles(inStr, esc) == [inString |-> ~inStr, stringEscape |-> FALSE]

\* The flags after a quote character: an escaped quote clears the escape, any
\* other quote opens or closes the string.
AfterQuote(inStr, esc) ==
  IF esc THEN [inString |-> inStr, stringEscape |-> FALSE]
  ELSE [inString |-> ~inStr, stringEscape |-> esc]

\* One iteration: a quote character.
ScanQuoteStep ==
  /\ spc = "scanning"
  /\ NotEOS(sText, sPos)
  /\ ~(CharAt(sText, ToNumber(sPos)) = "<" /\ ~inString)
  /\ CharAt(sText, ToNumber(sPos)) \in {"\"", "'"}
  /\ inString' = AfterQuote(inString, stringEscape).inString
  /\ stringEscape' = AfterQuote(inString, stringEscape).stringEscape
  /\ currentSegment' = Append(currentSegment, CharAt(sText, ToNumber(sPos)))
  /\ sPos' = ToNumber(sPos) + 1
  /\ UNCHANGED <<sText, sSegments, spc, sOutcome>>
  /\ sIter' = 1 - sIter
  /\ UNCHANGED sResult
  /\ UNCHANGED tVars
  /\ UNCHANGED fVars

\* One iteration on any other character with the pending escape given up.
ScanCharStep_ClearsEscape ==
  /\ spc = "scanning"
  /\ NotEOS(sText, sPos)
  /\ LET c == CharAt(sText, ToNumber(sPos))
     IN  /\ \/ c = "<" /\ ~inString /\ ~CommentNext(sText, sPos)
            \/ ~(c = "<" /\ ~inString) /\ c \notin {"\\", "\"", "'"}
         /\ currentSegment' = Append(currentSegment, c)
  /\ sPos' = ToNumber(sPos) + 1
  /\ stringEscape' = FALSE
  /\ UNCHANGED <<sText, sSegments, inString, spc, sOutcome>>
  /\ sIter' = 1 - sIter
  /\ UNCHANGED sResult
  /\ UNCHANGED tVars
  /\ UNCHANGED fVars

\* One iteration: any other character, and a "<" that opens no comment.
ScanCharStep ==
  /\ spc = "scanning"
  /\ NotEOS(sText, sPos)
  /\ LET c == CharAt(sText, ToNumber(sPos))
     IN  /\ \/ c = "<" /\ ~inString /\ ~CommentNext(sText, sPos)
            \/ ~(c = "<" /\ ~inString) /\ c \notin {"\\", "\"", "'"}
         /\ currentSegment' = Append(currentSegment, c)
  /\ sPos' = ToNumber(sPos) + 1
  /\ UNCHANGED <<sText, sSegments, inString, stringEscape, spc, sOutcome>>
  /\ sIter' = 1 - sIter
  /\ UNCHANGED sResult
  /\ UNCHANGED tVars
  /\ UNCHANGED fVars

\* The end of scan() returning the segments as they were before the last push.
ScanEnd_ReturnsOldSegments ==
  /\ spc = "scanning"
  /\ ~NotEOS(sText, sPos)
  /\ sSegments' = IF Len(currentSegment) > 0
                  THEN Push(sSegments, [comment |-> FALSE, text |-> currentSegment])
                  ELSE sSegments
  /\ spc' = "idle"
  /\ sOutcome' = "returned"
  /\ currentSegment' = <<>>
  /\ inString' = FALSE
  /\ stringEscape' = FALSE
  /\ UNCHANGED <<sText, sPos>>
  /\ sIter' = 0
  /\ sResult' = sSegments
  /\ UNCHANGED tVars
  /\ UNCHANGED fVars

\* The loop ends: the remaining segment is pushed when it is not empty, and
\* scan() returns #segments.
ScanEnd ==
  /\ spc = "scanning"
  /\ ~NotEOS(sText, sPos)
  /\ sSegments' = IF Len(currentSegment) > 0
                  THEN Push(sSegments, [comment |-> FALSE, text |-> currentSegment])
                  ELSE sSegments
  /\ spc' = "idle"
  /\ sOutcome' = "returned"
  /\ currentSegment' = <<>>
  /\ inString' = FALSE
  /\ stringEscape' = FALSE
  /\ UNCHANGED <<sText, sPos>>
  /\ sIter' = 0
  /\ sResult' = sSegments'
  /\ UNCHANGED tVars
  /\ UNCHANGED fVars

\* The loop of scan() and the final flush as a function of what the loop
\* starts from: the list returned, or Null when the loop has not ended within
\* the given number of iterations.
RECURSIVE ScanLoop(_, _, _, _, _, _, _)
ScanLoop(t, p, segs, cur, inStr, esc, iterations) ==
  IF ~NotEOS(t, p)
  THEN IF Len(cur) > 0 THEN Push(segs, [comment |-> FALSE, text |-> cur]) ELSE segs
  ELSE IF iterations = 0 THEN Null
  ELSE LET c == CharAt(t, ToNumber(p))
       IN  IF c = "<" /\ ~inStr /\ CommentNext(t, p)
           THEN ScanLoop(t, ScanComment(t, p).newPos,
                         Push(Push(segs, [comment |-> FALSE, text |-> cur]),
                              [comment |-> TRUE, text |-> ScanComment(t, p).text]),
                         <<>>, inStr, esc, iterations - 1)
           ELSE IF c = "<" /\ ~inStr
           THEN ScanLoop(t, ToNumber(p) + 1, segs, Append(cur, c), inStr, esc, iterations - 1)
           ELSE IF c = "\\"
           THEN ScanLoop(t, ToNumber(p) + 1, segs, IF esc THEN Append(cur, c) ELSE cur,
                         inStr, ~esc, iterations - 1)
           ELSE IF c \in {"\"", "'"}
           THEN ScanLoop(t, ToNumber(p) + 1, segs, Append(cur, c),
                         AfterQuote(inStr, esc).inString, AfterQuote(inStr, esc).stringEscape,
                         iterations - 1)
           ELSE ScanLoop(t, ToNumber(p) + 1, segs, Append(cur, c), inStr, esc, iterations - 1)

\* new CommentScanner(t).scan(): the list it returns. The loop is followed for
\* three readings of the text: a scan that goes back to the start of the
\* text more often than twice is in a cycle (see C2).
ScanResult(t) == ScanLoop(t, 0, <<>>, <<>>, FALSE, FALSE, 3 * (Len(t) + 1))

\* One iteration of the loop of scan(), or its end.
ScanStep ==
  \/ ScanCommentStep
  \/ ScanEscapeStep
  \/ ScanQuoteStep
  \/ ScanCharStep
  \/ ScanEnd

\* new CommentScanner() and new CommentScanner(text): the constructor loads
\* the text it is given.
SInit ==
  /\ sText \in {Null} \cup ScanTexts
  /\ sPos = 0
  /\ sSegments = <<>>
  /\ currentSegment = <<>>
  /\ inString = FALSE
  /\ stringEscape = FALSE
  /\ spc = "idle"
  /\ sOutcome = "none"
  /\ sIter = 0
  /\ sResult = <<>>

SNext ==
  \/ \E t \in ReloadTexts : SLoad(t)
  \/ \E v \in LoadValues : SLoadInvalid(v)
  \/ SReset
  \/ ScanBegin
  \/ ScanCommentStep
  \/ ScanEscapeStep
  \/ ScanQuoteStep
  \/ ScanCharStep
  \/ ScanEnd

\* -------------------------------------------------------- parser inputs

\* The most properties of a generated directive.
MaxProps == 2

\* The longest unstructured parser input, in tokens of TTokens.
MaxRawTokens == 3

\* The longest tail written where a property value is expected, in tokens of VTokens.
MaxValueTokens == 5

\* The longest tail written where a property is expected, in tokens of PTokens.
MaxPropTokens == 4

TTokens == {CommentOpen, CommentClose, <<" ">>, <<"\n">>, <<"@">>, <<"b">>, <<"-">>,
            <<"=">>, <<"\"">>, <<"'">>, <<"\\">>, <<"$">>}

RawTexts == {Flatten(ts) : ts \in UNION {[1..k -> TTokens] : k \in 0..MaxRawTokens}}

\* The texts that start a directive with one property and go on, where the
\* value is expected, with any tokens of VTokens.
VTokens == {<<"\"">>, <<"'">>, <<"\\">>, <<"x">>, <<" ">> \o CommentClose}

ValuePrefix == CommentOpen \o <<"@", "b", " ", "c", "=">>

ValueTexts == {ValuePrefix \o Flatten(ts) : ts \in UNION {[1..k -> VTokens] : k \in 0..MaxValueTokens}}

\* The texts that start a directive and go on, where a property is expected,
\* with any tokens of PTokens.
PTokens == {<<"b">>, <<" ">>, <<"=">>, <<"\"">>, <<"$">>, CommentClose}

PropPrefix == CommentOpen \o <<"@", "b", " ">>

PropTexts == {PropPrefix \o Flatten(ts) : ts \in UNION {[1..k -> PTokens] : k \in 0..MaxPropTokens}}

TReloadTexts ==
  {<<>>, <<"@">>, CommentOpen, CommentOpen \o <<" ", "b", " ">> \o CommentClose,
   CommentOpen \o <<" ", "@", "b", " ">> \o CommentClose,
   CommentOpen \o <<"@", "b", " ", "c", "=", "'", "x", "'">> \o CommentClose,
   CommentOpen \o <<"@", "b", " ", "c", "=", "'", "x">>,
   CommentOpen \o <<"@", "$">>,
   CommentOpen \o <<" ", "@", "B", " ", "C", "=", "'", "x", "'">> \o CommentClose}

\* A property as written: its name, its value (the characters meant, before
\* escaping) and the quote character around the value.
PropShapes == [name : {<<"b">>, <<"c">>}, value : {<<"x">>, <<"\"">>}, quote : {"\"", "'"}]

\* The directives written with white space between the sigil and the name.
SpacedShapes ==
  [ws1 : {<<>>, <<" ">>},
   ws0 : {<<" ">>, <<"\n">>},
   name : {<<"b">>},
   eq : {<<"=">>},
   sep : {<<" ">>},
   props : {<<>>} \cup [1..1 -> PropShapes],
   ws2 : {<<" ">>},
   close : {CommentClose}]

\* A directive as written: the name, the properties in order, the white space
\* after "<!--" (ws1), after the sigil (ws0), around "=" (eq), before each
\* property (sep) and before the end (ws2), and the end itself (close: "-->"
\* or nothing).
DirectiveShapes ==
  [ws1 : {<<>>, <<" ">>},
   ws0 : {<<>>},
   name : {<<"b">>, <<"b", "-", "c">>},
   eq : {<<"=">>, <<" ", "=", "\t">>},
   sep : {<<" ">>, <<"\n">>},
   props : UNION {[1..k -> PropShapes] : k \in 0..MaxProps},
   ws2 : {<<>>, <<" ">>},
   close : {CommentClose, <<>>}] \cup SpacedShapes

\* The characters of a value with a backslash before each quote q and each backslash.
RECURSIVE Escape(_, _)
Escape(v, q) ==
  IF v = <<>> THEN <<>>
  ELSE (IF Head(v) \in {q, "\\"} THEN <<"\\", Head(v)>> ELSE <<Head(v)>>) \o Escape(Tail(v), q)

RenderProp(d, pr) == d.sep \o pr.name \o d.eq \o <<pr.quote>> \o Escape(pr.value, pr.quote) \o <<pr.quote>>

RECURSIVE RenderProps(_, _)
RenderProps(d, prs) == IF prs = <<>> THEN <<>> ELSE RenderProp(d, Head(prs)) \o RenderProps(d, Tail(prs))

\* The text of a directive.
Render(d) == CommentOpen \o d.ws1 \o <<"@">> \o d.ws0 \o d.name \o RenderProps(d, d.props) \o d.ws2 \o d.close

\* --------------------------------------------------- CommentTransformer

\* /\s/ without the line terminators.
WhiteSpace_NoNewline == {" ", "\t"}

\* /\s/ on the characters of the model.
WhiteSpace == {" ", "\t", "\n"}

\* #templateNameStart on the characters of the model.
NameStartChars == {"b", "c", "x", "B", "C"}

\* #templateNameChar on the characters of the model.
NameChars == NameStartChars \cup {"-", ":", "_", ".", "0"}

\* The error of a failed transform(): its kind, and the text and the character
\* offset its message states (Null and NullPos when the message states none).
NoError == [kind |-> "none", text |-> Null, char |-> NullPos]

\* #eos()
Eos(t, p) == p >= Len(t)

\* #skipSpace(): the position after the white space at p.
RECURSIVE SkipSpace(_, _)
SkipSpace(t, p) == IF ~Eos(t, p) /\ CharAt(t, p) \in WhiteSpace THEN SkipSpace(t, p + 1) ELSE p

\* The end of the longest run of name characters from p.
RECURSIVE NameEnd(_, _)
NameEnd(t, p) == IF ~Eos(t, p) /\ CharAt(t, p) \in NameChars THEN NameEnd(t, p + 1) ELSE p

\* #templateName with any name character allowed as the first.
MatchName_AnyFirst(t, p) == IF CharAt(t, p) \in NameChars THEN NameEnd(t, p + 1) - p ELSE 0

\* The length of the match of #templateName at p; 0 when there is none.
MatchName(t, p) == IF CharAt(t, p) \in NameStartChars THEN NameEnd(t, p + 1) - p ELSE 0

\* The loop of #scanPropertyValue() with an escaping backslash kept in the value.
RECURSIVE ValueLoop_KeepsBackslash(_, _, _, _, _)
ValueLoop_KeepsBackslash(t, p, q, escaped, value) ==
  IF Eos(t, p) THEN [quoted |-> FALSE, value |-> value, pos |-> p]
  ELSE LET c == CharAt(t, p)
       IN  IF c = q /\ ~escaped THEN [quoted |-> TRUE, value |-> value, pos |-> p + 1]
           ELSE IF c = "\\" /\ ~escaped THEN ValueLoop_KeepsBackslash(t, p + 1, q, TRUE, Append(value, c))
           ELSE ValueLoop_KeepsBackslash(t, p + 1, q, FALSE, Append(value, c))

\* The loop of #scanPropertyValue() with either quote character ending the value.
RECURSIVE ValueLoop_AnyQuoteCloses(_, _, _, _, _)
ValueLoop_AnyQuoteCloses(t, p, q, escaped, value) ==
  IF Eos(t, p) THEN [quoted |-> FALSE, value |-> value, pos |-> p]
  ELSE LET c == CharAt(t, p)
       IN  IF c \in {"\"", "'"} /\ ~escaped THEN [quoted |-> TRUE, value |-> value, pos |-> p + 1]
           ELSE IF c = "\\" /\ ~escaped THEN ValueLoop_AnyQuoteCloses(t, p + 1, q, TRUE, value)
           ELSE ValueLoop_AnyQuoteCloses(t, p + 1, q, FALSE, Append(value, c))

\* The loop of #scanPropertyValue() from p with open quote q.
RECURSIVE ValueLoop(_, _, _, _, _)
ValueLoop(t, p, q, escaped, value) ==
  IF Eos(t, p) THEN [quoted |-> FALSE, value |-> value, pos |-> p]
  ELSE LET c == CharAt(t, p)
       IN  IF c = q /\ ~escaped THEN [quoted |-> TRUE, value |-> value, pos |-> p + 1]
           ELSE IF c = "\\" /\ ~escaped THEN ValueLoop(t, p + 1, q, TRUE, value)
           ELSE ValueLoop(t, p + 1, q, FALSE, Append(value, c))

\* #scanPropertyValue() stating the cursor in the error of an unterminated value.
ScanPropertyValue_StatesCursor(t, p) ==
  IF CharAt(t, p) \notin {"\"", "'"}
  THEN [err |-> "MissingOpenQuote", pos |-> p, char |-> p, value |-> <<>>]
  ELSE LET r == ValueLoop(t, p + 1, CharAt(t, p), FALSE, <<>>)
       IN  IF r.quoted
           THEN [err |-> "none", pos |-> r.pos, char |-> NullPos, value |-> r.value]
           ELSE [err |-> "UnterminatedValue", pos |-> r.pos, char |-> r.pos, value |-> <<>>]

\* #scanPropertyValue() at p.
ScanPropertyValue(t, p) ==
  IF CharAt(t, p) \notin {"\"", "'"}
  THEN [err |-> "MissingOpenQuote", pos |-> p, char |-> p, value |-> <<>>]
  ELSE LET r == ValueLoop(t, p + 1, CharAt(t, p), FALSE, <<>>)
       IN  IF r.quoted
           THEN [err |-> "none", pos |-> r.pos, char |-> NullPos, value |-> r.value]
           ELSE [err |-> "UnterminatedValue", pos |-> r.pos, char |-> Len(t) - 1, value |-> <<>>]

\* #scanProperty() with a "=" that may be left out.
ScanProperty_EqualsOptional(t, p) ==
  LET n == MatchName(t, p)
      p1 == SkipSpace(t, p + n)
      p2 == IF CharAt(t, p1) = "=" THEN SkipSpace(t, p1 + 1) ELSE p1
      v == ScanPropertyValue(t, p2)
  IN  IF n = 0
      THEN [err |-> "InvalidPropertyName", pos |-> p, char |-> p, name |-> <<>>, value |-> <<>>]
      ELSE [err |-> v.err, pos |-> v.pos, char |-> v.char,
            name |-> SubSeq(t, p + 1, p + n), value |-> v.value]

\* #scanProperty() at p: #scanPropertyName(), #skipSpace(), #skipPropertyEquals(),
\* #skipSpace(), #scanPropertyValue().
ScanProperty(t, p) ==
  LET n == MatchName(t, p)
      p1 == SkipSpace(t, p + n)
      p2 == SkipSpace(t, p1 + 1)
      v == ScanPropertyValue(t, p2)
  IN  IF n = 0
      THEN [err |-> "InvalidPropertyName", pos |-> p, char |-> p, name |-> <<>>, value |-> <<>>]
      ELSE IF CharAt(t, p1) # "="
      THEN [err |-> "MissingEquals", pos |-> p1, char |-> p1, name |-> <<>>, value |-> <<>>]
      ELSE [err |-> v.err, pos |-> v.pos, char |-> v.char,
            name |-> SubSeq(t, p + 1, p + n), value |-> v.value]

\* #isTemplateComment() looking for the sigil anywhere in the rest of the text.
IsTemplateComment_Anywhere(t, p) == \E k \in (p + 1)..Len(t) : t[k] = "@"

\* #isTemplateComment()
IsTemplateComment(t, p) == CharAt(t, p) = "@"

\* The properties kept as one map: a name that is there already gets the new value.
PushProperty_Merged(data, name, value) ==
  IF \E i \in 1..Len(data.properties) : data.properties[i].key = name
  THEN [data EXCEPT !.properties =
          [i \in 1..Len(@) |-> IF @[i].key = name THEN [key |-> name, value |-> value] ELSE @[i]]]
  ELSE [data EXCEPT !.properties = Append(@, [key |-> name, value |-> value])]

\* this.#templateData.properties.push({ [propName]: propValue })
PushProperty(data, name, value) ==
  [data EXCEPT !.properties = Append(@, [key |-> name, value |-> value])]

\* The end of the text taken for the end of the comment.
CommentCloseNext_OrEos(t, p) == StartsWith(Slice(t, p, Len(t)), CommentClose) \/ p >= Len(t)

\* this.#currentText().startsWith("-->") of #scanCommentClose() and #notEndOfComment()
CommentCloseNext(t, p) == StartsWith(Slice(t, p, Len(t)), CommentClose)

\* #notEndOfComment()
NotEndOfComment(t, p) == ~CommentCloseNext(t, p) /\ ~Eos(t, p)

\* The property loop of transform() from p and #scanCommentClose(), as a
\* function of the text: what is returned or thrown.
RECURSIVE PropertyLoop(_, _, _)
PropertyLoop(t, p, data) ==
  IF NotEndOfComment(t, p)
  THEN LET r == ScanProperty(t, p)
       IN  IF r.err # "none"
           THEN [outcome |-> "Error", kind |-> r.err, data |-> <<>>]
           ELSE PropertyLoop(t, SkipSpace(t, r.pos), PushProperty(data, r.name, r.value))
  ELSE IF ~CommentCloseNext(t, p)
  THEN [outcome |-> "Error", kind |-> "MissingCloseDelimiter", data |-> <<>>]
  ELSE [outcome |-> "directive", kind |-> "none", data |-> <<data>>]

\* transform() on the loaded text t, as a function of the text: what is
\* returned (null or the Directive) or thrown.
TransformResult(t) ==
  IF ~StartsWith(t, CommentOpen)
  THEN [outcome |-> "Error", kind |-> "MissingOpenDelimiter", data |-> <<>>]
  ELSE LET p == SkipSpace(t, 4)
           n == MatchName(t, p + 1)
           p1 == SkipSpace(t, p + 1 + n)
       IN  IF ~IsTemplateComment(t, p)
           THEN [outcome |-> "null", kind |-> "none", data |-> <<>>]
           ELSE IF n = 0
           THEN [outcome |-> "Error", kind |-> "InvalidName", data |-> <<>>]
           ELSE IF Eos(t, p1)
           THEN [outcome |-> "Error", kind |-> "UnterminatedComment", data |-> <<>>]
           ELSE PropertyLoop(t, p1, [name |-> SubSeq(t, p + 2, p + 1 + n), properties |-> <<>>])

\* The property loop of transform() from p and #scanCommentClose() on a newly
\* constructed instance, as a function of the text: how the call ends, where
\* the cursor is then and what #templateData holds.
RECURSIVE PropertyLoopEnd(_, _, _)
PropertyLoopEnd(t, p, data) ==
  IF NotEndOfComment(t, p)
  THEN LET r == ScanProperty(t, p)
       IN  IF r.err # "none"
           THEN [outcome |-> "Error", kind |-> r.err, pos |-> r.pos, data |-> <<data>>]
           ELSE PropertyLoopEnd(t, SkipSpace(t, r.pos), PushProperty(data, r.name, r.value))
  ELSE IF ~CommentCloseNext(t, p)
  THEN [outcome |-> "Error", kind |-> "MissingCloseDelimiter", pos |-> p, data |-> <<data>>]
  ELSE [outcome |-> "directive", kind |-> "none", pos |-> p + 3, data |-> <<data>>]

\* new CommentTransformer(t).transform(): how the call ends, and the position
\* and the templateData of the instance after it.
TransformEnd(t) ==
  IF ~StartsWith(t, CommentOpen)
  THEN [outcome |-> "Error", kind |-> "MissingOpenDelimiter", pos |-> 0, data |-> <<>>]
  ELSE LET p == SkipSpace(t, 4)
           n == MatchName(t, p + 1)
           p1 == SkipSpace(t, p + 1 + n)
       IN  IF ~IsTemplateComment(t, p)
           THEN [outcome |-> "null", kind |-> "none", pos |-> p, data |-> <<>>]
           ELSE IF n = 0
           THEN [outcome |-> "Error", kind |-> "InvalidName", pos |-> p + 1, data |-> <<>>]
           ELSE IF Eos(t, p1)
           THEN [outcome |-> "Error", kind |-> "UnterminatedComment", pos |-> p1,
                 data |-> <<[name |-> SubSeq(t, p + 2, p + 1 + n), properties |-> <<>>]>>]
           ELSE PropertyLoopEnd(t, p1, [name |-> SubSeq(t, p + 2, p + 1 + n), properties |-> <<>>])

\* transform() throws an Error.
Throw(kind, text, char) ==
  /\ tOutcome' = "Error"
  /\ tError' = [kind |-> kind, text |-> text, char |-> char]
  /\ tpc' = "idle"

\* load(comment) with a reset() that leaves #templateData as it is.
TLoad_KeepsTemplateData(t) ==
  /\ tpc = "idle"
  /\ tText' = t
  /\ tPos' = 0
  /\ tOutcome' = "none"
  /\ tError' = NoError
  /\ tShape' = <<>>
  /\ UNCHANGED <<templateData, tpc>>
  /\ tUse' = IF tUse = "called" THEN "reused" ELSE tUse
  /\ UNCHANGED sVars
  /\ UNCHANGED fVars

\* load(comment) storing the text without the call of reset().
TLoad_KeepsPosition(t) ==
  /\ tpc = "idle"
  /\ tText' = t
  /\ tOutcome' = "none"
  /\ tError' = NoError
  /\ tShape' = <<>>
  /\ UNCHANGED <<tPos, templateData, tpc>>
  /\ tUse' = IF tUse = "called" THEN "reused" ELSE tUse
  /\ UNCHANGED sVars
  /\ UNCHANGED fVars

\* load(comment) with a string.
TLoad(t) ==
  /\ tpc = "idle"
  /\ tText' = t
  /\ tPos' = 0
  /\ templateData' = <<>>
  /\ tOutcome' = "none"
  /\ tError' = NoError
  /\ tShape' = <<>>
  /\ UNCHANGED tpc
  /\ tUse' = IF tUse = "called" THEN "reused" ELSE tUse
  /\ UNCHANGED sVars
  /\ UNCHANGED fVars

\* load(comment) with a value that is not a string: throws before any assignment.
TLoadInvalid(v) ==
  /\ tpc = "idle"
  /\ ~IsText(v)
  /\ tOutcome' = "TypeError"
  /\ tError' = NoError
  /\ UNCHANGED <<tText, tPos, templateData, tpc, tShape>>
  /\ UNCHANGED tUse
  /\ UNCHANGED sVars
  /\ UNCHANGED fVars

\* reset()
TReset ==
  /\ tpc = "idle"
  /\ tPos' = 0
  /\ templateData' = <<>>
  /\ tOutcome' = "none"
  /\ tError' = NoError
  /\ UNCHANGED <<tText, tpc, tShape>>
  /\ UNCHANGED tUse
  /\ UNCHANGED sVars
  /\ UNCHANGED fVars

\* #scanCommentOpen() moving the cursor over the four characters before it
\* looks at them.
TransformOpen_MovesFirst ==
  /\ tpc = "idle"
  /\ IF tText = Null
     THEN /\ tOutcome' = "NullTypeError"
          /\ tError' = NoError
          /\ UNCHANGED <<tPos, tpc>>
     ELSE IF ~StartsWith(tText, CommentOpen)
     THEN /\ Throw("MissingOpenDelimiter", Null, NullPos)
          /\ tPos' = 4
     ELSE /\ tPos' = 4
          /\ tpc' = "sigil"
          /\ tOutcome' = "none"
          /\ tError' = NoError
  /\ UNCHANGED <<tText, templateData, tShape>>
  /\ tUse' = IF tUse = "fresh" THEN "called" ELSE tUse
  /\ UNCHANGED sVars
  /\ UNCHANGED fVars

\* transform() is entered: #scanCommentOpen().  With no text loaded the read
\* of this.#text.startsWith throws a TypeError.
TransformOpen ==
  /\ tpc = "idle"
  /\ IF tText = Null
     THEN /\ tOutcome' = "NullTypeError"
          /\ tError' = NoError
          /\ UNCHANGED <<tPos, tpc>>
     ELSE IF ~StartsWith(tText, CommentOpen)
     THEN /\ Throw("MissingOpenDelimiter", Null, NullPos)
          /\ UNCHANGED tPos
     ELSE /\ tPos' = 4
          /\ tpc' = "sigil"
          /\ tOutcome' = "none"
          /\ tError' = NoError
  /\ UNCHANGED <<tText, templateData, tShape>>
  /\ tUse' = IF tUse = "fresh" THEN "called" ELSE tUse
  /\ UNCHANGED sVars
  /\ UNCHANGED fVars

\* #skipSpace(), #isTemplateComment(): null is returned for a comment without
\* the sigil; #skipTemplateSigil() otherwise.
TransformSigil ==
  /\ tpc = "sigil"
  /\ LET p == SkipSpace(tText, tPos)
     IN  IF ~IsTemplateComment(tText, p)
         THEN /\ tPos' = p
              /\ tOutcome' = "null"
              /\ tpc' = "idle"
         ELSE /\ tPos' = p + 1
              /\ tpc' = "name"
              /\ UNCHANGED tOutcome
  /\ UNCHANGED <<tText, templateData, tError, tShape>>
  /\ UNCHANGED tUse
  /\ UNCHANGED sVars
  /\ UNCHANGED fVars

\* #scanTemplateName(), the assignment of #templateData, #skipSpace() and the
\* test for the end of the text.
TransformName ==
  /\ tpc = "name"
  /\ LET n == MatchName(tText, tPos)
         p == SkipSpace(tText, tPos + n)
     IN  IF n = 0
         THEN /\ Throw("InvalidName", tText, tPos)
              /\ UNCHANGED <<tPos, templateData>>
         ELSE /\ templateData' = <<[name |-> SubSeq(tText, tPos + 1, tPos + n), properties |-> <<>>]>>
              /\ tPos' = p
              /\ IF Eos(tText, p)
                 THEN Throw("UnterminatedComment", tText, Len(tText) - 1)
                 ELSE tpc' = "props" /\ UNCHANGED <<tOutcome, tError>>
  /\ UNCHANGED <<tText, tShape>>
  /\ UNCHANGED tUse
  /\ UNCHANGED sVars
  /\ UNCHANGED fVars

\* One iteration of the property loop: #scanProperty(), push, #skipSpace().
TransformProperty ==
  /\ tpc = "props"
  /\ NotEndOfComment(tText, tPos)
  /\ LET r == ScanProperty(tText, tPos)
     IN  IF r.err # "none"
         THEN /\ Throw(r.err, tText, r.char)
              /\ tPos' = r.pos
              /\ UNCHANGED templateData
         ELSE /\ templateData' = <<PushProperty(templateData[1], r.name, r.value)>>
              /\ tPos' = SkipSpace(tText, r.pos)
              /\ UNCHANGED <<tpc, tOutcome, tError>>
  /\ UNCHANGED <<tText, tShape>>
  /\ UNCHANGED tUse
  /\ UNCHANGED sVars
  /\ UNCHANGED fVars

\* #scanCommentClose() moving the cursor to the end of the text.
TransformClose_ToEnd ==
  /\ tpc = "props"
  /\ ~NotEndOfComment(tText, tPos)
  /\ IF ~CommentCloseNext(tText, tPos)
     THEN /\ Throw("MissingCloseDelimiter", tText, Len(tText) - 1)
          /\ UNCHANGED tPos
     ELSE /\ tPos' = Len(tText)
          /\ tOutcome' = "directive"
          /\ tpc' = "idle"
          /\ UNCHANGED tError
  /\ UNCHANGED <<tText, templateData, tShape>>
  /\ UNCHANGED tUse
  /\ UNCHANGED sVars
  /\ UNCHANGED fVars

\* The property loop ends: #scanCommentClose() and the return of #templateData.
TransformClose ==
  /\ tpc = "props"
  /\ ~NotEndOfComment(tText, tPos)
  /\ IF ~CommentCloseNext(tText, tPos)
     THEN /\ Throw("MissingCloseDelimiter", tText, Len(tText) - 1)
          /\ UNCHANGED tPos
     ELSE /\ tPos' = tPos + 3
          /\ tOutcome' = "directive"
          /\ tpc' = "idle"
          /\ UNCHANGED tError
  /\ UNCHANGED <<tText, templateData, tShape>>
  /\ UNCHANGED tUse
  /\ UNCHANGED sVars
  /\ UNCHANGED fVars

\* new CommentTransformer()
TFresh ==
  /\ tText = Null
  /\ tPos = 0
  /\ templateData = <<>>
  /\ tpc = "idle"
  /\ tOutcome = "none"
  /\ tError = NoError
  /\ tUse = "fresh"
  /\ tShape = <<>>

\* new CommentTransformer() and new CommentTransformer(comment): the
\* constructor loads the comment it is given.
TInit ==
  /\ tShape \in {<<>>} \cup {<<d>> : d \in DirectiveShapes}
  /\ tText \in (IF tShape = <<>> THEN {Null} \cup RawTexts \cup ValueTexts \cup PropTexts ELSE {Render(tShape[1])})
  /\ tPos = 0
  /\ templateData = <<>>
  /\ tpc = "idle"
  /\ tOutcome = "none"
  /\ tError = NoError
  /\ tUse = "fresh"

\* new CommentScanner()
SFresh ==
  /\ sText = Null
  /\ sPos = 0
  /\ sSegments = <<>>
  /\ currentSegment = <<>>
  /\ inString = FALSE
  /\ stringEscape = FALSE
  /\ spc = "idle"
  /\ sOutcome = "none"
  /\ sIter = 0
  /\ sResult = <<>>

TNext ==
  \/ \E t \in TReloadTexts : TLoad(t)
  \/ \E v \in LoadValues : TLoadInvalid(v)
  \/ TReset
  \/ TransformOpen
  \/ TransformSigil
  \/ TransformName
  \/ TransformProperty
  \/ TransformClose

\* ------------------------------------------------------------- FileReader

\* The files of the file system, by name: an HTML file, a JS module, a file
\* with another extension, and an HTML file under node_modules.
HtmlFile == <<"a", ".", "h", "t", "m", "l">>

JsFile == <<"b", ".", "j", "s">>

OtherFile == <<"d", "/", "c", ".", "p">>

ModuleFile == <<"n", "m", "/", "e", ".", "h", "t", "m", "l">>

\* A file in a node_modules directory (written nm) that is not at the top of
\* the working directory.
NestedModuleFile == <<"d", "/", "n", "m", "/", "f", ".", "h", "t", "m", "l">>

FileNames == {HtmlFile, JsFile, OtherFile, ModuleFile, NestedModuleFile}

\* The files the glob "node_modules/**" matches: the pattern is matched from
\* the start of the path, so it covers the node_modules directory at the top
\* of the working directory and no node_modules directory further down.
NodeModulesFiles == {f \in FileNames : StartsWith(f, <<"n", "m", "/">>)}

\* The values the options htmlExtensions and jsExtensions take.
HtmlExtensionLists == {{<<".", "h", "t", "m", "l">>}, {<<".", "h", "t", "m", "l">>, <<".", "p">>}}

JsExtensionLists == {{<<".", "j", "s">>}}

\* What the lists of globs #path, #blacklist and #whitelist match.
GlobMatches == [path : SUBSET FileNames, blacklist : SUBSET FileNames, whitelist : SUBSET FileNames]

\* String.prototype.endsWith.
EndsWith(t, suf) == Len(t) >= Len(suf) /\ SubSeq(t, Len(t) - Len(suf) + 1, Len(t)) = suf

\* The largest index of t that holds c, 0 when there is none.
LastIndexOf(t, c) == IF \E i \in 1..Len(t) : t[i] = c
                     THEN CHOOSE i \in 1..Len(t) : t[i] = c /\ \A j \in (i + 1)..Len(t) : t[j] # c
                     ELSE 0

\* #baseFilename(): path.parse(name).name, the last part of the path without
\* its last extension.
BaseFilename(name) ==
  LET base == SubSeq(name, LastIndexOf(name, "/") + 1, Len(name))
      dot == LastIndexOf(base, ".")
  IN  IF dot > 1 THEN SubSeq(base, 1, dot - 1) ELSE base

\* #isFileHTML()
IsFileHTML(name) == \E extension \in fHtmlExtensions : EndsWith(name, extension)

\* #isFileJS()
IsFileJS(name) == \E extension \in fJsExtensions : EndsWith(name, extension)

\* #ignoredGlobs(): what the blacklist and "node_modules/**" match.
IgnoredGlobs == fMatches.blacklist \cup NodeModulesFiles

\* glob(patterns, { ignore, nodir: true }): the files the patterns match and
\* the ignored globs do not.
Glob(matched, ignored) == matched \ ignored

\* The orders glob() may give its result in.
Orders(S) == {names \in [1..Cardinality(S) -> S] : \A i, j \in 1..Cardinality(S) : i # j => names[i] # names[j]}

\* The loop of #appendWhitelistFiles() without its test: every name is pushed.
AppendNew_Unchecked(list, names) == list \o names

\* The loop of #appendWhitelistFiles(): the names that are not there yet are pushed.
RECURSIVE AppendNew(_, _)
AppendNew(list, names) ==
  IF names = <<>> THEN list
  ELSE AppendNew(IF \E i \in 1..Len(list) : list[i] = Head(names) THEN list ELSE Append(list, Head(names)),
                 Tail(names))

\* #processFileHTML() and #processFileJS(): the text of the file, or the
\* default export of the module.
Content(name) == IF IsFileHTML(name) THEN [read |-> "text", file |-> name]
                 ELSE [read |-> "default export", file |-> name]

\* The for-of loop of loadFiles() at its head with the iterator at index i:
\* the loop is over and files is returned, the file is of neither kind and
\* the Error is thrown, or the file is read and loadFiles() waits for it.
LoopHead(names, i) ==
  IF i >= Len(names) THEN "resolved"
  ELSE IF IsFileHTML(names[i + 1]) \/ IsFileJS(names[i + 1]) THEN "reading"
  ELSE "rejected"

\* loadFiles() is called: it waits for the glob of #path.
LoadFilesCall ==
  /\ fpc = "idle"
  /\ fpc' = "globbing"
  /\ UNCHANGED <<fMatches, fHtmlExtensions, fJsExtensions, fileNames, fNext, files, wpc>>
  /\ UNCHANGED sVars
  /\ UNCHANGED tVars

\* The glob of #path resolves: #appendWhitelistFiles() is called and runs up
\* to its await of the glob of #whitelist, and the loop is entered.
PathGlobResolves ==
  /\ fpc = "globbing"
  /\ \E names \in Orders(Glob(fMatches.path, IgnoredGlobs)) :
       /\ fileNames' = names
       /\ fpc' = LoopHead(names, 0)
  /\ wpc' = "globbing"
  /\ files' = <<>>
  /\ fNext' = 0
  /\ UNCHANGED <<fMatches, fHtmlExtensions, fJsExtensions>>
  /\ UNCHANGED sVars
  /\ UNCHANGED tVars

\* The read of the current file resolves: its entry is pushed and the loop
\* goes to its head again.
FileRead ==
  /\ fpc = "reading"
  /\ files' = Append(files, [name |-> BaseFilename(fileNames[fNext + 1]), content |-> Content(fileNames[fNext + 1])])
  /\ fNext' = fNext + 1
  /\ fpc' = LoopHead(fileNames, fNext + 1)
  /\ UNCHANGED <<fMatches, fHtmlExtensions, fJsExtensions, fileNames, wpc>>
  /\ UNCHANGED sVars
  /\ UNCHANGED tVars

\* The glob of #whitelist resolves in #appendWhitelistFiles(), which nothing
\* waits for: its loop runs, whatever loadFiles() has come to.
WhitelistGlobResolves ==
  /\ wpc = "globbing"
  /\ \E names \in Orders(Glob(fMatches.whitelist, NodeModulesFiles)) :
       fileNames' = AppendNew(fileNames, names)
  /\ wpc' = "done"
  /\ UNCHANGED <<fMatches, fHtmlExtensions, fJsExtensions, fNext, files, fpc>>
  /\ UNCHANGED sVars
  /\ UNCHANGED tVars

\* No FileReader.
FFresh ==
  /\ fMatches = [path |-> {}, blacklist |-> {}, whitelist |-> {}]
  /\ fHtmlExtensions = {}
  /\ fJsExtensions = {}
  /\ fileNames = <<>>
  /\ fNext = 0
  /\ files = <<>>
  /\ fpc = "idle"
  /\ wpc = "idle"

\* new FileReader(path, options) in a file system.
FInit ==
  /\ fMatches \in GlobMatches
  /\ fHtmlExtensions \in HtmlExtensionLists
  /\ fJsExtensions \in JsExtensionLists
  /\ fileNames = <<>>
  /\ fNext = 0
  /\ files = <<>>
  /\ fpc = "idle"
  /\ wpc = "idle"

FNext ==
  \/ LoadFilesCall
  \/ PathGlobResolves
  \/ FileRead
  \/ WhitelistGlobResolves

\* -------------------------------------------------------- specifications

\* One scanner, given any text of ScanTexts, beside an unused parser.
ScannerInit == SInit /\ TFresh /\ FFresh

ScannerSpec == ScannerInit /\ [][SNext]_vars

\* scan() is synchronous: once entered, its loop keeps running.
ScannerFairSpec == ScannerSpec /\ WF_vars(ScanStep)

\* One parser, given any text of RawTexts or the text of any directive, beside
\* an unused scanner.
TransformerInit == TInit /\ SFresh /\ FFresh

TransformerSpec == TransformerInit /\ [][TNext]_vars

\* A scanner and a parser constructed empty and used side by side.
Init == SFresh /\ TFresh /\ FFresh

Next == SNext \/ TNext

Spec == Init /\ [][Next]_vars

\* One FileReader and one call of its loadFiles(), beside an unused scanner
\* and parser.
FileReaderInit == FInit /\ SFresh /\ TFresh

FileReaderSpec == FileReaderInit /\ [][FNext]_vars

\* ------------------------------------------------------------- pipeline

\* The longest document of the pipeline, in tokens of STokens or of DocTokens.
MaxDocTokens == 4

\* The pieces of the documents that hold directives: text, a quote, a
\* directive comment, a comment that is no directive, a new line.
DocTokens ==
  {<<"x">>, <<"\"">>, <<"\n">>,
   CommentOpen \o <<"@", "b", " ">> \o CommentClose,
   CommentOpen \o <<" ", "b", " ">> \o CommentClose}

\* A directive whose quoted value holds a new line.
NewlineValueDoc == CommentOpen \o <<"@", "b", " ", "c", "=", "'", "\n", "'">> \o CommentClose

\* The documents given to the scanner of the pipeline: any tokens of the
\* scanner, any tokens of DocTokens, and a directive with one property alone
\* in the document, with any tokens of VTokens where the value is expected.
PipelineDocs ==
  {Flatten(ts) : ts \in UNION {[1..k -> STokens] : k \in 0..MaxDocTokens}}
    \cup {Flatten(ts) : ts \in UNION {[1..k -> DocTokens] : k \in 0..MaxDocTokens}}
    \cup {ValuePrefix \o Flatten(ts) : ts \in UNION {[1..k -> VTokens] : k \in 0..MaxDocTokens}}
    \cup {NewlineValueDoc}

\* The caller of the pipeline takes a comment segment of the list scan()
\* returned and gives its text to load() of the parser: a string is stored,
\* null is refused with a TypeError.
FeedSegment(i) ==
  /\ spc = "idle"
  /\ sOutcome = "returned"
  /\ i \in 1..Len(sResult)
  /\ sResult[i].comment
  /\ IF sResult[i].text = Null
     THEN TLoadInvalid([typeof |-> "null", isString |-> FALSE])
     ELSE TLoad(sResult[i].text)

\* new CommentScanner(document) beside new CommentTransformer().
PInit ==
  /\ sText \in PipelineDocs
  /\ sPos = 0
  /\ sSegments = <<>>
  /\ currentSegment = <<>>
  /\ inString = FALSE
  /\ stringEscape = FALSE
  /\ spc = "idle"
  /\ sOutcome = "none"
  /\ sIter = 0
  /\ sResult = <<>>

PipelineInit == PInit /\ TFresh /\ FFresh

\* scan() on the document, then load() and transform() on comment segments
\* of its result, in any order and any number of times, on one parser.
PipelineNext ==
  \/ ScanBegin
  \/ ScanCommentStep
  \/ ScanEscapeStep
  \/ ScanQuoteStep
  \/ ScanCharStep
  \/ ScanEnd
  \/ \E i \in 1..MaxSegments : FeedSegment(i)
  \/ TransformOpen
  \/ TransformSigil
  \/ TransformName
  \/ TransformProperty
  \/ TransformClose

PipelineSpec == PipelineInit /\ [][PipelineNext]_vars

\* ------------------------------------------------------------ properties

\* The texts of the segments, one after the other.
RECURSIVE ConcatTexts(_)
ConcatTexts(segs) == IF segs = <<>> THEN <<>> ELSE Head(segs).text \o ConcatTexts(Tail(segs))

Chars(t) == {t[i] : i \in 1..Len(t)}

Quotes == {"\"", "'"}

\* scan() has returned and nothing was called since.
ScanReturned == spc = "idle" /\ sOutcome = "returned"

C2_ScanTerminates == (spc = "scanning") ~> (spc = "idle")

\* The quote that is open after the first n characters of t ("" for none) and
\* whether the next character is escaped, reading t as attribute text: a quote
\* is closed by the same quote character only, a backslash escapes the one
\* character after it.
RECURSIVE QuoteState(_, _)
QuoteState(t, n) ==
  IF n = 0 THEN [open |-> "", esc |-> FALSE]
  ELSE LET s == QuoteState(t, n - 1)
           c == t[n]
       IN  IF s.esc THEN [open |-> s.open, esc |-> FALSE]
           ELSE IF c = "\\" THEN [open |-> s.open, esc |-> TRUE]
           ELSE IF c \in Quotes /\ s.open = "" THEN [open |-> c, esc |-> FALSE]
           ELSE IF c = s.open THEN [open |-> "", esc |-> FALSE]
           ELSE s

\* The characters from..to of t (1-based) lie inside one quoted value: a quote
\* is open before them and stays open until a closing quote after them.
InsideQuotedValue(t, from, to) ==
  /\ QuoteState(t, from - 1).open # ""
  /\ \E b \in (to + 1)..Len(t) :
       /\ QuoteState(t, b).open = ""
       /\ \A k \in (from - 1)..(b - 1) : QuoteState(t, k).open = QuoteState(t, from - 1).open

\* C3: no step of scan() emits as a comment a span of the text that lies
\* inside a quoted value.
C3_QuotedNeverComment ==
  [][(ScanCommentStep /\ ScanComment(sText, sPos).text # Null) =>
       ~InsideQuotedValue(sText, ToNumber(sPos) + 1, ScanComment(sText, sPos).newPos)]_vars

\* t is "<!--", some characters, and the first "-->" after the "<!--".
IsCommentText(t) ==
  /\ t # Null
  /\ StartsWith(t, CommentOpen)
  /\ Len(t) >= 7
  /\ \A j \in 4..(Len(t) - 3) : (SubSeq(t, j + 1, j + 3) = CommentClose) <=> (j = Len(t) - 3)

\* C4: every comment segment of a returned scan is a string that begins with
\* "<!--" and ends with the first "-->" after it.
C4_CommentSegmentsDelimited ==
  ScanReturned => \A i \in 1..Len(sSegments) : sSegments[i].comment => IsCommentText(sSegments[i].text)

\* scan() is at a "<!--" outside a string that the comment pattern does not match.
AtUnmatchedComment ==
  spc = "scanning" /\ NotEOS(sText, sPos) /\ AtComment /\ ScanComment(sText, sPos).text = Null

\* C5: at a "<!--" that has no match, the step of scan() emits no segment and
\* takes the "<" as an ordinary character.
C5_UnterminatedIsLenient ==
  [][AtUnmatchedComment =>
       /\ sSegments' = sSegments
       /\ currentSegment' = Append(currentSegment, "<")
       /\ sPos' = ToNumber(sPos) + 1]_vars

\* C6: no segment of a returned scan has an empty text.
C6_NoEmptySegment ==
  ScanReturned => \A i \in 1..Len(sSegments) : sSegments[i].text # <<>>

\* The number of backslashes directly before offset p of t is odd.
RECURSIVE BackslashRun(_, _)
BackslashRun(t, p) == IF p > 0 /\ CharAt(t, p - 1) = "\\" THEN 1 + BackslashRun(t, p - 1) ELSE 0

\* C7 as stated: in a quoted region a quote character that follows a backslash
\* (one that is not itself the second of a pair) is appended and does not end
\* the region.
C7_BackslashQuote ==
  [][(ScanQuoteStep /\ inString /\ BackslashRun(sText, ToNumber(sPos)) % 2 = 1) =>
       /\ inString'
       /\ currentSegment' = Append(currentSegment, CharAt(sText, ToNumber(sPos)))]_vars

\* C7, amended: a backslash read while no escape is pending is not appended
\* and sets the pending escape; a quote character directly after it, in a
\* quoted region, is appended, clears the escape and leaves the region open;
\* a backslash directly after it is appended once and clears the escape.
C7_PendingEscape ==
  [][/\ (ScanEscapeStep /\ ~stringEscape) =>
          (currentSegment' = currentSegment /\ stringEscape')
     /\ (ScanQuoteStep /\ inString /\ stringEscape /\ CharAt(sText, ToNumber(sPos) - 1) = "\\") =>
          /\ inString'
          /\ ~stringEscape'
          /\ currentSegment' = Append(currentSegment, CharAt(sText, ToNumber(sPos)))
     /\ (ScanEscapeStep /\ stringEscape /\ CharAt(sText, ToNumber(sPos) - 1) = "\\") =>
          /\ ~stringEscape'
          /\ currentSegment' = Append(currentSegment, "\\")]_vars

\* scan() has just read a backslash and a quote character inside a quoted
\* region: the quote was appended without the backslash, the region is open.
C7_Witness ==
  /\ spc = "scanning"
  /\ inString
  /\ ~stringEscape
  /\ sPos # NullPos /\ sPos >= 3
  /\ CharAt(sText, sPos - 2) = "\\"
  /\ CharAt(sText, sPos - 1) \in Quotes
  /\ BackslashRun(sText, sPos - 1) = 1
  /\ Len(currentSegment) >= 2
  /\ currentSegment[Len(currentSegment)] = CharAt(sText, sPos - 1)
  /\ currentSegment[Len(currentSegment) - 1] # "\\"

\* The 0-based offsets of "-->" in r at or after offset 4, whatever lies between.
AnyCloseOffsets(r) == {j \in 4..(Len(r) - 3) : SubSeq(r, j + 1, j + 3) = CommentClose}

\* C8: at a "<!--" outside a string with a "-->" after it, new lines between
\* them or not, the step of scan() emits the span up to the first "-->" as one
\* comment segment and moves behind it.
C8_MultilineComment ==
  [][(ScanCommentStep /\ AnyCloseOffsets(Rest(sText, sPos)) # {}) =>
       LET len == SetMin(AnyCloseOffsets(Rest(sText, sPos))) + 3
       IN  /\ sPos' = ToNumber(sPos) + len
           /\ Len(sSegments') = Len(sSegments) + 2
           /\ sSegments'[Len(sSegments')] =
                [comment |-> TRUE, text |-> SubSeq(Rest(sText, sPos), 1, len)]]_vars

\* transform() has ended, by a return or an Error, and nothing was called since.
TransformEnded == tpc = "idle" /\ tOutcome \in {"null", "directive", "Error"}

\* t begins with "<!--" and no "@" is the first character after the white
\* space that follows it.
NoSigil(t) ==
  /\ t # Null
  /\ StartsWith(t, CommentOpen)
  /\ \A k \in 5..Len(t) : t[k] = "@" => \E j \in 5..(k - 1) : t[j] \notin WhiteSpace

\* C9: transform() on a text that begins with "<!--" and has no "@" as its
\* first character after the white space returns null.
C9_NotADirective == (TransformEnded /\ NoSigil(tText)) => tOutcome = "null"

\* transform() returned null on a comment that has an "@" further on.
C9_Witness ==
  /\ TransformEnded
  /\ NoSigil(tText)
  /\ "@" \in Chars(tText)
  /\ tOutcome = "null"

\* A directive written with "-->" at its end and white space or a quoted
\* value before it.
WellFormed(d) == d.ws0 = <<>> /\ d.close = CommentClose /\ (d.ws2 # <<>> \/ d.props # <<>>)

\* The Directive a written directive stands for.
Expected(d) ==
  [name |-> d.name,
   properties |-> [i \in 1..Len(d.props) |-> [key |-> d.props[i].name, value |-> d.props[i].value]]]

\* C10: transform() on a well-formed directive returns its name and one entry
\* per property as written, in the order written, equal names included.
C10_PropertiesInOrder ==
  (TransformEnded /\ tShape # <<>> /\ WellFormed(tShape[1])) =>
    (tOutcome = "directive" /\ templateData = <<Expected(tShape[1])>>)

\* transform() returned a Directive with two entries for one property name.
C10_Witness ==
  /\ TransformEnded
  /\ tShape # <<>>
  /\ WellFormed(tShape[1])
  /\ Len(tShape[1].props) = 2
  /\ tShape[1].props[1].name = tShape[1].props[2].name
  /\ tShape[1].props[1].value # tShape[1].props[2].value
  /\ tOutcome = "directive"
  /\ Len(templateData[1].properties) = 2

\* The offsets from p on that hold a quote character.
QuoteOffsets(t, p) == {k \in p..(Len(t) - 1) : CharAt(t, k) \in Quotes}

\* The character at offset k has an even number of backslashes directly before it.
Unescaped(t, k) == BackslashRun(t, k) % 2 = 0

\* The offsets after the open quote at o that hold the same quote, unescaped.
ClosingOffsets(t, o) == {k \in (o + 1)..(Len(t) - 1) : CharAt(t, k) = CharAt(t, o) /\ Unescaped(t, k)}

\* The characters at offsets k..(c - 1) without the unescaped backslashes.
RECURSIVE ValueBetween(_, _, _)
ValueBetween(t, k, c) ==
  IF k >= c THEN <<>>
  ELSE (IF CharAt(t, k) = "\\" /\ Unescaped(t, k) THEN <<>> ELSE <<CharAt(t, k)>>) \o ValueBetween(t, k + 1, c)

\* The value of the last property of the Directive d.
LastValue(d) == d.properties[Len(d.properties)].value

\* C11: a property that transform() scans has as its value the characters
\* between the opening quote and the first later quote of the same kind with no
\* unescaped backslash before it, every unescaped backslash dropped and the
\* character after it kept; the other kind of quote is an ordinary character;
\* the cursor goes on after that closing quote.
C11_QuotedValue ==
  [][(TransformProperty /\ tOutcome' # "Error") =>
       /\ QuoteOffsets(tText, tPos) # {}
       /\ LET o == SetMin(QuoteOffsets(tText, tPos))
          IN  /\ ClosingOffsets(tText, o) # {}
              /\ LET c == SetMin(ClosingOffsets(tText, o))
                 IN  /\ LastValue(templateData'[1]) = ValueBetween(tText, o + 1, c)
                     /\ tPos' > c
                     /\ \A k \in (c + 1)..(tPos' - 1) : CharAt(tText, k) \in WhiteSpace]_vars

\* A value was scanned that holds an escaped quote of its own kind, the other
\* kind of quote and a character written after a backslash.
C11_Witness ==
  /\ tpc = "props"
  /\ templateData # <<>>
  /\ templateData[1].properties # <<>>
  /\ Quotes \subseteq Chars(LastValue(templateData[1]))
  /\ \E k \in 1..(Len(tText) - 1) : tText[k] = "\\" /\ tText[k + 1] \in Quotes

\* The directives written as d but for the white space after the sigil (one
\* of ws0s) and elsewhere.
Respaced(d, ws0s) ==
  {[d EXCEPT !.ws1 = a, !.ws0 = b, !.eq = c, !.sep = e, !.ws2 = f] :
     a \in {<<>>, <<" ">>}, b \in ws0s, c \in {<<"=">>, <<" ", "=", "\t">>},
     e \in {<<" ">>, <<"\n">>}, f \in {<<>>, <<" ">>}}

\* d is e with white space put in or a run of white space changed: no run of
\* e is taken away.
SpaceAdded(e, d) ==
  /\ e.ws1 = <<>> \/ d.ws1 # <<>>
  /\ e.ws0 = <<>> \/ d.ws0 # <<>>
  /\ e.eq = <<"=">> \/ d.eq # <<"=">>
  /\ e.ws2 = <<>> \/ d.ws2 # <<>>

\* transform() has ended on the directive d with the result it has on the
\* text of e whenever e is a directive transform() accepts and d is e with
\* white space added.
SameResultAsBases(d, bases) ==
  \A e \in bases :
    (SpaceAdded(e, d) /\ TransformResult(Render(e)).outcome = "directive") =>
      (tOutcome = "directive" /\ templateData = TransformResult(Render(e)).data)

\* C12 as stated: white space put in or changed after "<!--", between the
\* sigil and the name, between the name and the properties, between
\* properties, around "=" and before "-->" does not change the result of
\* transform().
C12_WhiteSpaceTolerance ==
  (TransformEnded /\ tShape # <<>>) =>
    SameResultAsBases(tShape[1], Respaced(tShape[1], {<<>>, <<" ">>, <<"\n">>}))

\* C12: white space put in or changed after "<!--", between the name and the
\* properties, between properties, around "=" and before "-->" does not change
\* the result of transform() on a directive it accepts; white space between
\* the sigil and the name makes transform() fail on the name.
C12_WhiteSpaceToleranceButName ==
  (TransformEnded /\ tShape # <<>>) =>
    IF tShape[1].ws0 = <<>>
    THEN SameResultAsBases(tShape[1], Respaced(tShape[1], {<<>>}))
    ELSE tOutcome = "Error" /\ tError.kind = "InvalidName"

\* transform() returned the Directive of a text with white space in every
\* place that takes it, new lines between the properties.
C12_Witness ==
  /\ TransformEnded
  /\ tShape # <<>>
  /\ tShape[1].ws0 = <<>>
  /\ tShape[1].ws1 # <<>>
  /\ tShape[1].eq # <<"=">>
  /\ tShape[1].sep = <<"\n">>
  /\ tShape[1].ws2 # <<>>
  /\ Len(tShape[1].props) = 2
  /\ tOutcome = "directive"
  /\ templateData = TransformResult(Render([tShape[1] EXCEPT !.ws1 = <<>>, !.eq = <<"=">>, !.sep = <<" ">>, !.ws2 = <<>>])).data

\* C13: a directive whose name or last property value has "-->" directly
\* after it, no white space between, is accepted, and the "-->" is no part of
\* the name.
C13_CloseWithoutSpace ==
  (/\ TransformEnded
   /\ tShape # <<>>
   /\ tShape[1].ws0 = <<>>
   /\ tShape[1].ws2 = <<>>
   /\ tShape[1].close = CommentClose) =>
    (tOutcome = "directive" /\ templateData = <<Expected(tShape[1])>>)

\* t begins with "<!--" and has the sigil as the first character after the
\* white space that follows.
IsDirectiveText(t) == t # Null /\ StartsWith(t, CommentOpen) /\ ~NoSigil(t)

\* t has "-->" somewhere after its "<!--".
HasClose(t) == \E k \in 5..(Len(t) - 2) : SubSeq(t, k, k + 2) = CommentClose

\* C14: transform() fails on a directive whose text ends before "-->", after
\* the name as well as after complete properties, and returns a Directive only
\* with the cursor just after a "-->".
C14_UnterminatedDirective ==
  /\ (TransformEnded /\ tShape # <<>> /\ tShape[1].ws0 = <<>> /\ tShape[1].close = <<>>) =>
       (tOutcome = "Error" /\ tError.kind \in {"UnterminatedComment", "MissingCloseDelimiter"})
  /\ (TransformEnded /\ IsDirectiveText(tText) /\ ~HasClose(tText)) => tOutcome = "Error"
  /\ tOutcome = "directive" => (tPos >= 7 /\ SubSeq(tText, tPos - 2, tPos) = CommentClose)

\* transform() failed at the end of a text that has two complete properties
\* and no "-->".
C14_Witness ==
  /\ TransformEnded
  /\ tShape # <<>>
  /\ tShape[1].close = <<>>
  /\ Len(tShape[1].props) = 2
  /\ templateData # <<>>
  /\ Len(templateData[1].properties) = 2
  /\ tOutcome = "Error"
  /\ tError.kind = "MissingCloseDelimiter"
  /\ tPos = Len(tText)

\* t is a directive with a first property whose value opens with a quote that
\* no later unescaped quote of the same kind closes.
OpenValue(t) ==
  /\ t # Null
  /\ StartsWith(t, ValuePrefix)
  /\ CharAt(t, Len(ValuePrefix)) \in Quotes
  /\ ClosingOffsets(t, Len(ValuePrefix)) = {}

\* C15: transform() fails with an unterminated value on a property value whose
\* opening quote has no unescaped quote of the same kind after it, the other
\* kind of quote and escaped quotes closing nothing.
C15_UnterminatedValue ==
  (TransformEnded /\ OpenValue(tText)) =>
    (tOutcome = "Error" /\ tError.kind = "UnterminatedValue" /\ tPos = Len(tText))

\* transform() failed on a value opened with one kind of quote and followed by
\* the other kind, an escaped quote of its own kind and "-->".
C15_Witness ==
  /\ TransformEnded
  /\ OpenValue(tText)
  /\ Quotes \subseteq {tText[k] : k \in (Len(ValuePrefix) + 2)..Len(tText)}
  /\ HasClose(tText)
  /\ tOutcome = "Error"
  /\ tError.kind = "UnterminatedValue"

\* The first offset from p on that holds no character of S, the length of t
\* when there is none.
FirstNotIn(t, p, S) == SetMin({k \in p..Len(t) : k = Len(t) \/ CharAt(t, k) \notin S})

\* The offset where the "=" of the property whose name starts at p is due.
EqualsOffset(t, p) == FirstNotIn(t, FirstNotIn(t, p + 1, NameChars), WhiteSpace)

\* C16: in the property loop, a property name that is not followed by "="
\* (white space between allowed) makes transform() fail, and so does a "=" that
\* is not followed by a quote character (white space between allowed); the
\* Directive gets no property for it.
C16_EqualsAndQuote ==
  [][(TransformProperty /\ CharAt(tText, tPos) \in NameStartChars) =>
       /\ CharAt(tText, EqualsOffset(tText, tPos)) # "=" =>
            /\ tOutcome' = "Error"
            /\ tError'.kind = "MissingEquals"
            /\ templateData' = templateData
       /\ (/\ CharAt(tText, EqualsOffset(tText, tPos)) = "="
           /\ CharAt(tText, FirstNotIn(tText, EqualsOffset(tText, tPos) + 1, WhiteSpace)) \notin Quotes) =>
            /\ tOutcome' = "Error"
            /\ tError'.kind = "MissingOpenQuote"
            /\ templateData' = templateData]_vars

\* transform() failed on a property that has "=" and white space after its
\* name and a character that is no quote after them.
C16_Witness ==
  /\ TransformEnded
  /\ tPos < Len(tText)
  /\ tOutcome = "Error"
  /\ tError.kind = "MissingOpenQuote"
  /\ templateData # <<>>
  /\ CharAt(tText, tPos) \notin Quotes \cup WhiteSpace
  /\ \E k \in 0..(tPos - 2) : CharAt(tText, k) = "=" /\ \A j \in (k + 1)..(tPos - 1) : CharAt(tText, j) \in WhiteSpace

\* The letters a-z and A-Z among the characters of the model.
Letters == {"b", "c", "x", "B", "C"}

\* C17: transform() fails when the character after the sigil is no letter, and
\* when the first character of a property name is no letter; no Directive that
\* is built, whole or in part, has an empty name or an empty property name.
C17_NameGrammar ==
  /\ [](templateData # <<>> =>
          /\ templateData[1].name # <<>>
          /\ templateData[1].name[1] \in Letters
          /\ \A i \in 1..Len(templateData[1].properties) :
               /\ templateData[1].properties[i].key # <<>>
               /\ templateData[1].properties[i].key[1] \in Letters)
  /\ []((/\ TransformEnded
         /\ IsDirectiveText(tText)
         /\ CharAt(tText, FirstNotIn(tText, 4, WhiteSpace) + 1) \notin Letters) =>
          (tOutcome = "Error" /\ tError.kind = "InvalidName"))
  /\ [][(TransformProperty /\ CharAt(tText, tPos) \notin Letters) =>
          /\ tOutcome' = "Error"
          /\ tError'.kind = "InvalidPropertyName"
          /\ templateData' = templateData]_vars

\* transform() failed on a name that starts with "-", a character names may
\* hold but not start with.
C17_Witness ==
  /\ TransformEnded
  /\ tOutcome = "Error"
  /\ tError.kind = "InvalidName"
  /\ CharAt(tText, tPos) = "-"
  /\ CharAt(tText, tPos - 1) = "@"
  /\ templateData = <<>>

\* C18: transform() on a loaded text that does not begin with "<!--" fails at
\* once: the cursor and templateData are what they were before the call.
C18_MissingOpenDelimiter ==
  [][(TransformOpen /\ tText # Null /\ ~StartsWith(tText, CommentOpen)) =>
       /\ tOutcome' = "Error"
       /\ tError'.kind = "MissingOpenDelimiter"
       /\ tpc' = "idle"
       /\ tPos' = tPos
       /\ templateData' = templateData]_vars

\* transform() failed on a text that has "<!--" after its first character, the
\* cursor still at 0.
C18_Witness ==
  /\ TransformEnded
  /\ tOutcome = "Error"
  /\ tError.kind = "MissingOpenDelimiter"
  /\ \E k \in 2..Len(tText) : StartsWith(Slice(tText, k - 1, Len(tText)), CommentOpen)
  /\ tPos = 0
  /\ templateData = <<>>

\* C19: templateData is the outcome of the latest transform(): null before
\* any transform() and after load() and reset(), null after a transform() that
\* returned null or failed, the returned Directive after one that succeeded.
C19_TemplateDataIsOutcome ==
  /\ (tpc = "idle" /\ tOutcome = "none") => templateData = <<>>
  /\ (TransformEnded /\ tOutcome = "null") => templateData = <<>>
  /\ (TransformEnded /\ tOutcome = "Error") => templateData = <<>>
  /\ (TransformEnded /\ tOutcome = "directive") => templateData = TransformResult(tText).data

\* C20 as stated: every failure of transform() on a malformed text carries the
\* loaded text and the offset the cursor has when the failure is detected.
C20_ErrorCarriesTextAndCursor ==
  (TransformEnded /\ tOutcome = "Error") => (tError.text = tText /\ tError.char = tPos)

\* The failures that state the cursor, those that state the offset of the last
\* character of the text.
AtCursorKinds == {"InvalidName", "InvalidPropertyName", "MissingEquals", "MissingOpenQuote"}

AtLastCharKinds == {"UnterminatedValue", "UnterminatedComment", "MissingCloseDelimiter"}

\* C20: a failure on the name, on a property name, on a missing "=" or on a
\* missing opening quote carries the loaded text and the offset of the cursor;
\* a failure on an unterminated value, on a text that ends after the name or on
\* a missing "-->" carries the loaded text and the offset of its last
\* character, one less than the cursor or more; the failure on a text that does
\* not begin with "<!--" carries neither.
C20_ErrorCarriesWhatItStates ==
  (TransformEnded /\ tOutcome = "Error") =>
    /\ tError.kind \in AtCursorKinds \cup AtLastCharKinds \cup {"MissingOpenDelimiter"}
    /\ tError.kind \in AtCursorKinds => (tError.text = tText /\ tError.char = tPos)
    /\ tError.kind \in AtLastCharKinds =>
         (tError.text = tText /\ tError.char = Len(tText) - 1 /\ tPos = Len(tText))
    /\ tError.kind = "MissingOpenDelimiter" => (tError.text = Null /\ tError.char = NullPos /\ tPos = 0)

\* transform() failed on a missing "=" after a first property was scanned, the
\* cursor past the name of the second and not at the end of the text.
C20_Witness ==
  /\ TransformEnded
  /\ tOutcome = "Error"
  /\ tError.kind = "MissingEquals"
  /\ templateData # <<>>
  /\ Len(templateData[1].properties) = 1
  /\ tError.char = tPos
  /\ tPos < Len(tText) - 1

\* The values the claim names: a number, a boolean, an object, null, undefined.
NonStrings == {v \in LoadValues : ~v.isString}

\* C21: load() of the scanner and of the parser with a number, a boolean, an
\* object, null or undefined throws a TypeError and changes nothing: text,
\* position and segments or templateData are what they were.
C21_InvalidLoad ==
  /\ [](\A v \in NonStrings : (spc = "idle" => ENABLED SLoadInvalid(v)) /\ (tpc = "idle" => ENABLED TLoadInvalid(v)))
  /\ [][\A v \in NonStrings :
          /\ SLoadInvalid(v) => (sOutcome' = "TypeError" /\ UNCHANGED <<sText, sPos, sSegments>>)
          /\ TLoadInvalid(v) => (tOutcome' = "TypeError" /\ UNCHANGED <<tText, tPos, templateData>>)]_vars

\* A scanner with segments and a parser with a Directive, both with the cursor
\* moved, have each rejected a load().
C21_Witness ==
  /\ spc = "idle"
  /\ sOutcome = "TypeError"
  /\ sSegments # <<>>
  /\ sPos > 0
  /\ tpc = "idle"
  /\ tOutcome = "TypeError"
  /\ templateData # <<>>
  /\ tPos > 0

\* C22: scan() on a scanner and transform() on a parser with no text loaded
\* throw at once and change nothing: the text is still null, the position 0,
\* segments empty and templateData null.
C22_NotLoaded ==
  /\ [](sText = Null => (sPos = 0 /\ sSegments = <<>>))
  /\ [](tText = Null => (tPos = 0 /\ templateData = <<>>))
  /\ [][(ScanBegin /\ sText = Null) =>
          (sOutcome' = "NullTypeError" /\ spc' = "idle" /\ UNCHANGED <<sText, sPos, sSegments>>)]_vars
  /\ [][(TransformOpen /\ tText = Null) =>
          (tOutcome' = "NullTypeError" /\ tpc' = "idle" /\ UNCHANGED <<tText, tPos, templateData>>)]_vars

\* scan() and transform() have each thrown on an instance with no text.
C22_Witness ==
  /\ sText = Null
  /\ sOutcome = "NullTypeError"
  /\ sPos = 0
  /\ sSegments = <<>>
  /\ tText = Null
  /\ tOutcome = "NullTypeError"
  /\ tPos = 0
  /\ templateData = <<>>

\* C23: reset() sets the position to 0, empties segments (scanner) or sets
\* templateData to null (parser) and leaves the loaded text; load(t) with a
\* string makes t the text and leaves the rest as reset() does; segments is
\* empty as long as no scan() was started since construction, load() or reset().
C23_Lifecycle ==
  /\ []((spc = "idle" /\ sOutcome = "none") => (sPos = 0 /\ sSegments = <<>>))
  /\ [][SReset => (sPos' = 0 /\ sSegments' = <<>> /\ sText' = sText)]_vars
  /\ [][TReset => (tPos' = 0 /\ templateData' = <<>> /\ tText' = tText)]_vars
  /\ [][\A t \in ReloadTexts : SLoad(t) => (sText' = t /\ sPos' = 0 /\ sSegments' = <<>>)]_vars
  /\ [][\A t \in TReloadTexts : TLoad(t) => (tText' = t /\ tPos' = 0 /\ templateData' = <<>>)]_vars

\* A scanner and a parser that hold a text and are as reset() and load()
\* leave them, beside each other.
C23_Witness ==
  /\ spc = "idle"
  /\ sOutcome = "none"
  /\ sText # Null
  /\ Len(sText) > 0
  /\ sPos = 0
  /\ sSegments = <<>>
  /\ tpc = "idle"
  /\ tOutcome = "none"
  /\ tText # Null
  /\ Len(tText) > 0
  /\ tPos = 0
  /\ templateData = <<>>

\* C24: whenever scan() has returned, the position is the length of the loaded
\* text and the value returned is the sequence the segments getter gives.
C24_PositionAtEnd == ScanReturned => (sPos = Len(sText) /\ sResult = sSegments)

\* scan() has returned from a text with a comment in the middle and text left
\* over at the end, pushed after the loop.
C24_Witness ==
  /\ ScanReturned
  /\ Len(sSegments) >= 3
  /\ sSegments[2].comment
  /\ ~sSegments[Len(sSegments)].comment
  /\ sPos = Len(sText)
  /\ sPos > 7
  /\ sResult = sSegments

\* C25 as stated: whenever transform() has returned a Directive, the position
\* is the length of the loaded text.
C25_PositionAtEnd == (TransformEnded /\ tOutcome = "directive") => tPos = Len(tText)

\* C25: whenever transform() has returned a Directive, the position is the
\* offset just after the "-->" that ends the directive, the text after it was
\* not read (the text cut at the position gives the same Directive), and the
\* position is the length of the text when the text ends with that "-->", as
\* the text of every directive written out does.
C25_PositionAfterClose ==
  (TransformEnded /\ tOutcome = "directive") =>
    /\ tPos <= Len(tText)
    /\ CommentCloseNext(tText, tPos - 3)
    /\ TransformResult(SubSeq(tText, 1, tPos)) = [outcome |-> "directive", kind |-> "none", data |-> templateData]
    /\ tShape # <<>> => tPos = Len(tText)

\* transform() returned a Directive from a text that goes on after the "-->".
C25_Witness ==
  /\ TransformEnded
  /\ tOutcome = "directive"
  /\ CommentCloseNext(tText, tPos - 3)
  /\ tPos < Len(tText)

\* The files the entries of the list were read from.
Loaded(list) == {list[i].content.file : i \in 1..Len(list)}

\* The files the globs of #whitelist give.
WhitelistFiles == Glob(fMatches.whitelist, NodeModulesFiles)

\* The files the globs of #path give.
PathFiles == Glob(fMatches.path, IgnoredGlobs)

\* C26: whenever loadFiles() has returned its list, the list has an entry for
\* every file a whitelist glob matches, however the end of the whitelist glob
\* falls among the reads, also when the path globs match no file.
C26_WhitelistLoaded == fpc = "resolved" => WhitelistFiles \subseteq Loaded(files)

OfNoKind(f) ==
  /\ \A e \in fHtmlExtensions : ~EndsWith(f, e)
  /\ \A e \in fJsExtensions : ~EndsWith(f, e)

\* C28: when a file that the path globs or the whitelist globs give is of
\* neither kind, loadFiles() does not return a list; a file whose extension
\* is among htmlExtensions is read as text.
C28_UnknownExtensionRejected ==
  /\ (\E f \in PathFiles \cup WhitelistFiles : OfNoKind(f)) => fpc # "resolved"
  /\ \A i \in 1..Len(files) :
       (\E e \in fHtmlExtensions : EndsWith(files[i].content.file, e)) => files[i].content.read = "text"

\* ------------------------------------------------------------------ C29

\* The offset just after the last quote character before offset q, or 0.
AfterLastQuote(t, q) ==
  IF \E i \in 0..(q - 1) : CharAt(t, i) \in {"\"", "'"}
  THEN 1 + CHOOSE i \in 0..(q - 1) :
             /\ CharAt(t, i) \in {"\"", "'"}
             /\ \A j \in (i + 1)..(q - 1) : CharAt(t, j) \notin {"\"", "'"}
  ELSE 0

\* The backslashes between the last quote character before q and q.
BackslashesSinceQuote(t, q) ==
  Cardinality({i \in AfterLastQuote(t, q)..(q - 1) : CharAt(t, i) = "\\"})

\* A comment opening lies within the first q characters.
OpensBefore(t, q) ==
  \E i \in 0..(q - 1) : i + 4 <= Len(t) /\ SubSeq(t, i + 1, i + 4) = CommentOpen

\* C29: in scan() a pending escape is consumed only by a backslash or a quote
\* character. Any other character read while it is pending is appended and
\* leaves it pending, a recognised comment leaves it pending too, and a quote
\* character read while it is pending is appended, clears it and does not
\* toggle the in-string state. So in a text with no comment opening, which
\* scan() reads once from left to right, a quote character with an odd number
\* of backslashes since the previous quote character, however far back, never
\* toggles the in-string state. (After an unclosed comment opening the text
\* is read again with the flags of the previous pass, see C2, and the flags
\* no longer follow from the characters to the left.)
C29_StickyEscape ==
  /\ [][(spc = "scanning" /\ spc' = "scanning" /\ stringEscape /\ ~stringEscape')
          => (ScanEscapeStep \/ ScanQuoteStep)]_vars
  /\ [][(ScanCharStep /\ stringEscape)
          => /\ stringEscape'
             /\ inString' = inString
             /\ currentSegment' = Append(currentSegment, CharAt(sText, ToNumber(sPos)))]_vars
  /\ [][(ScanCommentStep /\ stringEscape) => (stringEscape' /\ inString' = inString)]_vars
  /\ [][(ScanQuoteStep /\ stringEscape)
          => /\ ~stringEscape'
             /\ inString' = inString
             /\ currentSegment' = Append(currentSegment, CharAt(sText, ToNumber(sPos)))]_vars
  /\ [][(/\ ScanQuoteStep
         /\ ~OpensBefore(sText, Len(sText))
         /\ BackslashesSinceQuote(sText, ToNumber(sPos)) % 2 = 1)
          => /\ inString' = inString
             /\ currentSegment' = Append(currentSegment, CharAt(sText, ToNumber(sPos)))]_vars

\* A quote character two or more characters after its backslash has just been
\* appended without opening a string.
C29_Witness ==
  /\ spc = "scanning"
  /\ sPos # NullPos
  /\ sPos >= 3
  /\ CharAt(sText, sPos - 1) \in {"\"", "'"}
  /\ CharAt(sText, sPos - 2) \notin {"\\", "\"", "'"}
  /\ CharAt(sText, sPos - 3) = "\\"
  /\ BackslashesSinceQuote(sText, sPos - 1) = 1
  /\ ~OpensBefore(sText, Len(sText))
  /\ ~inString
  /\ ~stringEscape
  /\ Len(currentSegment) >= 2
  /\ currentSegment[Len(currentSegment)] = CharAt(sText, sPos - 1)
  /\ currentSegment[Len(currentSegment) - 1] = CharAt(sText, sPos - 2)

\* ------------------------------------------------------------------ C30

\* C30: in every reachable state of the parser the cursor lies between 0 and
\* the length of the loaded text (0 while no text is loaded), and during one
\* transform() call the cursor, once #scanCommentOpen() has set it past the
\* opening delimiter, stays at or after that delimiter and never decreases.
C30_CursorInRange ==
  /\ [](/\ tPos >= 0
        /\ tText = Null => tPos = 0
        /\ tText # Null => tPos <= Len(tText))
  /\ [](tpc # "idle" => tPos >= Len(CommentOpen))
  /\ [][tpc # "idle" => (tText' = tText /\ tPos' >= tPos)]_vars

\* A transform() call has moved the cursor from the opening delimiter over a
\* directive to the very end of the text and returned.
C30_Witness ==
  /\ tpc = "idle"
  /\ tOutcome = "directive"
  /\ tPos = Len(tText)
  /\ tPos > Len(CommentOpen) + Len(CommentClose)

\* ------------------------------------------------------------------ C31

\* A transform() call on a loaded text has ended: it returned or it threw.
CallEnded == tpc = "idle" /\ tText # Null /\ tOutcome \in {"directive", "null", "Error"}

\* C31: reuse is equivalent to a fresh instance. load(t) on an instance that
\* has been through any loads, resets and transform() calls leaves the fields
\* a newly constructed parser given t has, and whenever a transform() call has
\* ended, on a fresh or on a used instance, its outcome (the Directive, null
\* or the failure), the position and the templateData are those of
\* new CommentTransformer(t).transform().
C31_ReuseIsFresh ==
  /\ [][\A t \in TReloadTexts : TLoad(t) => (tText' = t /\ tPos' = 0 /\ templateData' = <<>>)]_vars
  /\ [](CallEnded
          => [outcome |-> tOutcome, kind |-> tError.kind, pos |-> tPos, data |-> templateData]
               = TransformEnd(tText))

\* transform() has returned a Directive with a property on an instance that
\* was loaded again after an earlier transform() call.
C31_Witness ==
  /\ CallEnded
  /\ tUse = "reused"
  /\ tOutcome = "directive"
  /\ templateData # <<>>
  /\ Len(templateData[1].properties) > 0

\* ------------------------------------------------------------------ C32

\* transform() on t returns a Directive with the cursor at the end of t.
DirectiveToTheEnd(t) ==
  /\ t # Null
  /\ TransformEnd(t).outcome = "directive"
  /\ TransformEnd(t).pos = Len(t)

\* C32: scanner and parser agree on where a directive comment ends. For every
\* text D on which transform() returns a Directive with the position at the
\* length of D, scan() on the document D returns exactly one segment, a
\* comment segment with the text D.
C32_SameCommentEnd ==
  (ScanReturned /\ DirectiveToTheEnd(sText))
    => sResult = <<[comment |-> TRUE, text |-> sText]>>

\* ------------------------------------------------------------------ C33

\* C33: pipeline safety. For every document on which scan() returns, the text
\* of each comment segment is a string load() of the parser accepts, no
\* transform() on a segment fails for a missing opening delimiter, and when
\* transform() returns a Directive the cursor is at the end of the segment
\* text.
C33_PipelineSafe ==
  /\ ScanReturned => \A i \in 1..Len(sResult) : sResult[i].comment => sResult[i].text # Null
  /\ tOutcome # "TypeError"
  /\ tOutcome = "Error" => tError.kind # "MissingOpenDelimiter"
  /\ (tpc = "idle" /\ tOutcome = "directive") => tPos = Len(tText)

\* ------------------------------------------------------------------ C34

\* The text holds a quote character or a backslash.
HasQuoteOrBackslash(text) == \E k \in 1..Len(text) : text[k] \in {"\"", "'", "\\"}

\* A comment the pattern matches begins at the cursor.
CommentAhead == NotEOS(sText, sPos) /\ CommentNext(sText, sPos) /\ ScanComment(sText, sPos).text # Null

\* C34: the quote and backslash characters inside a recognised comment are not
\* interpreted by scan(). The step that emits a comment segment leaves the
\* in-string state and the pending escape as they were just before the
\* comment, whatever the body holds, so right after a comment segment is
\* emitted the scanner is outside a string, as it was at the "<" of the
\* comment, and a comment that follows is looked for as before.
C34_CommentBodyNotRead ==
  /\ [][ScanCommentStep => (inString' = inString /\ stringEscape' = stringEscape)]_vars
  /\ []((/\ spc = "scanning"
         /\ sSegments # <<>>
         /\ sSegments[Len(sSegments)].comment
         /\ currentSegment = <<>>) => ~inString)
  /\ [][(ScanCommentStep /\ ScanComment(sText, sPos).text # Null /\ Len(sSegments) + 2 <= MaxSegments)
          => (/\ sPos' = ToNumber(sPos) + Len(ScanComment(sText, sPos).text)
              /\ (CommentAhead => AtComment)')]_vars

\* scan() has returned two comment segments in a row, the first with a quote
\* character or a backslash in its body.
C34_Witness ==
  /\ ScanReturned
  /\ \E i \in 1..Len(sResult), j \in 1..Len(sResult) :
       /\ i < j
       /\ sResult[i].comment /\ sResult[i].text # Null /\ HasQuoteOrBackslash(sResult[i].text)
       /\ sResult[j].comment /\ sResult[j].text # Null
       /\ \A k \in (i + 1)..(j - 1) : sResult[k].text = <<>>

\* ------------------------------------------------------------------ C35

\* C35: scan() called again after a completed scan, with no reset() or load()
\* in between, adds no segment and changes no state: it begins at the end of
\* the text with the list of the first call, and returns that list with the
\* position still at the text length. Whenever scan() has returned, after a
\* repeated call or after reset() and a new scan, the list is the one a first
\* scan of the text returns.
C35_RescanAddsNothing ==
  /\ [](ScanReturned
          => /\ sResult = ScanResult(sText)
             /\ sSegments = sResult
             /\ sPos = Len(sText))
  /\ [][(ScanReturned /\ ScanBegin)
          => /\ sText' = sText /\ sPos' = sPos /\ sSegments' = sSegments
             /\ sSegments' = sResult
             /\ ~NotEOS(sText', sPos')
             /\ currentSegment' = <<>>]_vars
  /\ [][(ScanEnd /\ currentSegment = <<>>)
          => (sSegments' = sSegments /\ sPos' = sPos /\ sResult' = sSegments)]_vars

\* A second scan() call has been entered with the list of the first call in
\* place: the scanner is at the end of the text with segments that no step of
\* this call has pushed (they hold no comment, and the final flush is still
\* to come).
C35_Witness ==
  /\ spc = "scanning"
  /\ ~NotEOS(sText, sPos)
  /\ currentSegment = <<>>
  /\ sSegments # <<>>
  /\ \A i \in 1..Len(sSegments) : ~sSegments[i].comment
  /\ sSegments = ScanResult(sText)

\* ------------------------------------------------------------------ C36

\* The file lies in a node_modules directory (written nm), at the top of the
\* working directory or further down.
UnderNodeModules(f) ==
  \/ StartsWith(f, <<"n", "m", "/">>)
  \/ \E i \in 1..Len(f) : i + 3 <= Len(f) /\ SubSeq(f, i, i + 3) = <<"/", "n", "m", "/">>

\* C36: exclusion in loadFiles(). At every moment of the call no entry of
\* files is read from a file under node_modules, whether a path glob or a
\* whitelist glob matches it, and none from a file that a blacklist glob
\* matches unless a whitelist glob matches it too.
C36_Excluded ==
  \A f \in Loaded(files) :
    /\ ~UnderNodeModules(f)
    /\ f \in fMatches.blacklist => f \in fMatches.whitelist

====
